---------------------------- MODULE Spec2Model ----------------------------
(***************************************************************************)
(* Model of src/src/lib.rs (crate hkdf-sha512): the free functions extract *)
(* and expand, the private helper copy_into_cleared and the zero-size      *)
(* wrapper Hkdf, together with the two rust-crypto routines they call      *)
(* (crypto::hkdf::hkdf_extract and crypto::hkdf::hkdf_expand, imported at  *)
(* lib.rs:55).                                                             *)
(*                                                                         *)
(* A call is a small machine (a "call configuration") that is advanced by  *)
(* Step one program point at a time; Run iterates Step to the end of the   *)
(* call, which gives the functions as operators.  Caller threads own their *)
(* argument buffers in mem and drive one call at a time.                   *)
(*                                                                         *)
(* HMAC-SHA512 is an abstract keyed function Hmac(key, message) with a     *)
(* 64-byte result: a position-sensitive fold of the key, then of the       *)
(* message.  It separates the key from the message, so exchanging the two  *)
(* arguments changes the digest.                                           *)
(***************************************************************************)
EXTENDS Integers, Sequences, FiniteSets, TLC

\* ------------------------------------------------------------ constants

\* lib.rs:58  const SHA512_OUTPUT_BYTES_LENGTH: usize = 64
SHA512_OUTPUT_BYTES_LENGTH == 64

\* u8::MAX, the largest value of the block counter `let mut n: u8` of
\* hkdf_expand (the element type u8 of every buffer, lib.rs:90)
U8_MAX == 2^8 - 1

\* ---------------------------------------------------------------- bounds

\* caller-chosen input bytes are drawn from 1..MaxByte
MaxByte == 2

\* output buffers span up to MaxChunks whole digest blocks (plus a tail)
MaxChunks == 2

\* the program points a caller executes in one step when calls are not
\* followed point by point
Burst == 24

\* ---------------------------------------------------------- byte strings

Zeros(len) == [j \in 1..len |-> 0]

Fill(len, b) == [j \in 1..len |-> b]

Take(s, k) == SubSeq(s, 1, k)

Min(x, y) == IF x < y THEN x ELSE y

\* ------------------------------------------------- HMAC-SHA512, abstract

\* an order-sensitive combination of two hash values
HashMod == 32749

Mix(h, g) == (h * 31 + g * 17 + (((h + 3) * (g + 5)) % 251) + 7) % HashMod

\* the hash of the bytes s[lo..hi], every byte and its position counting,
\* computed by halving the range
RECURSIVE Tree(_, _, _)
Tree(s, lo, hi) ==
    IF lo >= hi
    THEN (IF lo > hi THEN 1 ELSE s[lo] + 2)
    ELSE Mix(Tree(s, lo, (lo + hi) \div 2), Tree(s, (lo + hi) \div 2 + 1, hi))

Absorb(h, s) == Mix(Mix(h, Len(s)), Tree(s, 1, Len(s)))

\* Hmac::new(digest, key); mac.input(message): the keyed state, then the message
HmacTag(key, message) ==
    Absorb(Absorb(5381, key), message)

\* mac.output_bytes()
output_bytes == SHA512_OUTPUT_BYTES_LENGTH

\* mac.raw_result(..): the digest, output_bytes bytes
Hmac(key, message) ==
    LET tag == HmacTag(key, message)
    IN  [j \in 1..output_bytes |-> (tag * (j + 16) + (tag \div 256) + j * j) % 256]


\* ------------------------------------------------------ call configurations
\* A call in progress: the program point pc, the two read-only byte-slice
\* arguments of the function being executed (x, y), the output buffer it
\* holds by &mut (out), and the locals of hkdf_expand's loop: the block
\* counter n, the previous block t and the number i of chunks written.

Frame(pc, x, y, out) ==
    [pc |-> pc, x |-> x, y |-> y, out |-> out, n |-> 0, t |-> <<>>, i |-> 0]

Return(out) == Frame("done", <<>>, <<>>, out)

Panic(out) == Frame("panic", <<>>, <<>>, out)

\* copy_into_cleared without its dst.clear()
copy_into_uncleared(src, dst) == dst \o src

\* lib.rs:96-99  dst.clear(); dst.extend_from_slice(src)
copy_into_cleared(src, dst) ==
    LET cleared == SubSeq(dst, 1, 0)
    IN  cleared \o src

\* rust-crypto hkdf_extract(digest, salt, ikm, prk):
\*   assert!(prk.len() == digest.output_bytes());
\*   let mut mac = Hmac::new(digest, salt); mac.input(ikm); mac.raw_result(prk);
hkdf_extract(salt, ikm, prk) ==
    IF Len(prk) # output_bytes
    THEN Panic(prk)
    ELSE Return(Hmac(salt, ikm))

\* extract passing its inputs to hkdf_extract in the other order
extract_swapped(seed, secret, out) ==
    LET out1 == IF Len(out) # SHA512_OUTPUT_BYTES_LENGTH
                THEN copy_into_cleared(Zeros(SHA512_OUTPUT_BYTES_LENGTH), out)
                ELSE out
    IN  Frame("hkdf_extract", secret, seed, out1)

\* extract resetting out when its length is the digest length (== for !=)
extract_inverted(seed, secret, out) ==
    LET out1 == IF Len(out) = SHA512_OUTPUT_BYTES_LENGTH
                THEN copy_into_cleared(Zeros(SHA512_OUTPUT_BYTES_LENGTH), out)
                ELSE out
    IN  Frame("hkdf_extract", seed, secret, out1)

\* lib.rs:80-85
extract(seed, secret, out) ==
    LET out1 == IF Len(out) # SHA512_OUTPUT_BYTES_LENGTH
                THEN copy_into_cleared(Zeros(SHA512_OUTPUT_BYTES_LENGTH), out)
                ELSE out
    IN  Frame("hkdf_extract", seed, secret, out1)

\* rust-crypto hkdf_expand(digest, prk, info, okm), before its loop:
\*   let mut mac = Hmac::new(digest, prk); let os = mac.output_bytes();
\*   let mut t: Vec<u8> = repeat(0).take(os).collect(); let mut n: u8 = 0;
hkdf_expand(prk, info, okm) ==
    [Frame("chunk", prk, info, okm) EXCEPT !.t = Zeros(output_bytes)]

\* the message of block n: if n != 1 { mac.input(&t) }; mac.input(info); mac.input(&[n])
BlockInput(t, info, n) ==
    (IF n # 1 THEN t ELSE <<>>) \o info \o <<n>>

\* the chunk filled from the end of t instead of its start
WriteChunk_tail(okm, i, t, chunk_len) ==
    LET start == i * output_bytes
    IN  SubSeq(okm, 1, start) \o SubSeq(t, Len(t) - chunk_len + 1, Len(t))
            \o SubSeq(okm, start + chunk_len + 1, Len(okm))

\* copy_memory(&t[..chunk_len], chunk), chunk being the i-th chunk of okm
WriteChunk(okm, i, t, chunk_len) ==
    LET start == i * output_bytes
    IN  SubSeq(okm, 1, start) \o SubSeq(t, 1, chunk_len)
            \o SubSeq(okm, start + chunk_len + 1, Len(okm))

\* the loop with a wrapping block counter: n = n.wrapping_add(1)
hkdf_expand_chunk_wrapping(c) ==
    IF c.i * output_bytes >= Len(c.out)
    THEN Return(c.out)
    ELSE LET n1        == (c.n + 1) % (U8_MAX + 1)
             t1        == Hmac(c.x, BlockInput(c.t, c.y, n1))
             chunk_len == Min(output_bytes, Len(c.out) - c.i * output_bytes)
         IN  [c EXCEPT !.n = n1, !.t = t1, !.i = c.i + 1,
                       !.out = WriteChunk(c.out, c.i, t1, chunk_len)]

\* one iteration of `for chunk in okm.chunks_mut(os)`:
\*   n = n.checked_add(1).expect("HKDF size limit exceeded.");
\*   ... mac.raw_result(&mut t); mac.reset(); copy_memory(&t[..chunk_len], chunk);
hkdf_expand_chunk(c) ==
    IF c.i * output_bytes >= Len(c.out)
    THEN Return(c.out)
    ELSE IF c.n + 1 > U8_MAX
    THEN Panic(c.out)
    ELSE LET n1        == c.n + 1
             t1        == Hmac(c.x, BlockInput(c.t, c.y, n1))
             chunk_len == Min(output_bytes, Len(c.out) - c.i * output_bytes)
         IN  [c EXCEPT !.n = n1, !.t = t1, !.i = c.i + 1,
                       !.out = WriteChunk(c.out, c.i, t1, chunk_len)]

\* expand passing its inputs to hkdf_expand in the other order
expand_swapped(prk, info, out) == Frame("hkdf_expand", info, prk, out)

\* expand resetting its buffer the way extract does
expand_resizing(prk, info, out) ==
    Frame("hkdf_expand", prk, info,
          IF Len(out) # SHA512_OUTPUT_BYTES_LENGTH
          THEN copy_into_cleared(Zeros(SHA512_OUTPUT_BYTES_LENGTH), out)
          ELSE out)

\* lib.rs:90-92
expand(prk, info, out) == Frame("hkdf_expand", prk, info, out)

\* the wrappers forwarding their inputs in the other order
Hkdf_extract_swapped(seed, secret, out) == Frame("extract", secret, seed, out)

Hkdf_expand_swapped(prk, info, out) == Frame("expand", info, prk, out)

\* lib.rs:68-70  Hkdf::extract(&self, seed, secret, out)
Hkdf_extract(seed, secret, out) == Frame("extract", seed, secret, out)

\* lib.rs:73-75  Hkdf::expand(&self, prk, info, out)
Hkdf_expand(prk, info, out) == Frame("expand", prk, info, out)

\* one program point of a call
Step(c) ==
    CASE c.pc = "Hkdf::extract" -> Hkdf_extract(c.x, c.y, c.out)
      [] c.pc = "Hkdf::expand"  -> Hkdf_expand(c.x, c.y, c.out)
      [] c.pc = "extract"       -> extract(c.x, c.y, c.out)
      [] c.pc = "expand"        -> expand(c.x, c.y, c.out)
      [] c.pc = "hkdf_extract"  -> hkdf_extract(c.x, c.y, c.out)
      [] c.pc = "hkdf_expand"   -> hkdf_expand(c.x, c.y, c.out)
      [] c.pc = "chunk"         -> hkdf_expand_chunk(c)
      [] OTHER                  -> c

Ended(pc) == pc \in {"idle", "done", "panic"}

\* up to k program points of a call, stopping where it ends
RECURSIVE RunFor(_, _)
RunFor(c, k) == IF k = 0 \/ Ended(c.pc) THEN c ELSE RunFor(Step(c), k - 1)

\* a call run from its entry to its end, with nothing else running
RECURSIVE Run(_)
Run(c) == IF Ended(c.pc) THEN c ELSE Run(Step(c))

\* the entry point of operation op called as a free function ("fn") or as a
\* method of an Hkdf value ("method")
Entry(op, via) == IF via = "method" THEN "Hkdf::" \o op ELSE op

RunAlone(op, via, a, b, out) == Run(Frame(Entry(op, via), a, b, out))

\* ------------------------------------------------------------------ state

VARIABLES
    fr,     \* fr[th]: the call configuration of thread th, without its out
    mem,    \* mem[th]: the buffers thread th owns: a, b (inputs) and out
    call    \* call[th]: what thread th last called: op, via, out before the call

vars == <<fr, mem, call>>

Threads == {1, 2}

IdleFrame == [pc |-> "idle", x |-> <<>>, y |-> <<>>, n |-> 0, t |-> <<>>, i |-> 0]

Locals(c) == [pc |-> c.pc, x |-> c.x, y |-> c.y, n |-> c.n, t |-> c.t, i |-> c.i]

Config(th) ==
    [pc |-> fr[th].pc, x |-> fr[th].x, y |-> fr[th].y, out |-> mem[th].out,
     n |-> fr[th].n, t |-> fr[th].t, i |-> fr[th].i]

\* every write going to one buffer shared by the callers
StoreOut_shared(m, th, v) == [m EXCEPT ![1].out = v]

\* a write through the thread's own `out: &mut Vec<u8>`
StoreOut(m, th, v) == [m EXCEPT ![th].out = v]

Init ==
    /\ fr = [th \in Threads |-> IdleFrame]
    /\ mem = [th \in Threads |-> [a |-> <<>>, b |-> <<>>, out |-> <<>>]]
    /\ call = [th \in Threads |-> [op |-> "none", via |-> "fn", pre |-> <<>>]]

\* thread th calls op with inputs a, b and an output buffer holding pre
Call(th, op, via, a, b, pre) ==
    /\ Ended(fr[th].pc)
    /\ fr' = [fr EXCEPT ![th] = Locals(Frame(Entry(op, via), a, b, pre))]
    /\ mem' = [mem EXCEPT ![th] = [a |-> a, b |-> b, out |-> pre]]
    /\ call' = [call EXCEPT ![th] = [op |-> op, via |-> via, pre |-> pre]]

\* thread th executes the next program point of its call
ThreadStep(th) ==
    /\ ~Ended(fr[th].pc)
    /\ LET c == Step(Config(th))
       IN  /\ fr' = [fr EXCEPT ![th] = Locals(c)]
           /\ mem' = StoreOut(mem, th, c.out)
    /\ UNCHANGED call

\* thread th executes the next Burst program points of its call
ThreadRun(th) ==
    /\ ~Ended(fr[th].pc)
    /\ LET c == RunFor(Config(th), Burst)
       IN  /\ fr' = [fr EXCEPT ![th] = Locals(c)]
           /\ mem' = StoreOut(mem, th, c.out)
    /\ UNCHANGED call

\* ------------------------------------------------------------ input sets

Vias == {"fn", "method"}

Inputs == {<<>>} \cup {<<b>> : b \in 1..MaxByte}

\* a PRK as extract produces it, and a short one (the length is not enforced)
Prks == {Hmac(<<1>>, <<>>), <<1>>}

OutLens ==
    {k * SHA512_OUTPUT_BYTES_LENGTH + d : k \in 0..MaxChunks, d \in {0, 1, 6}}

PriorBufs == {Fill(len, b) : len \in OutLens, b \in {0, 9}}

CallExtract(th) ==
    \E via \in Vias, seed \in Inputs, secret \in Inputs, pre \in PriorBufs :
        Call(th, "extract", via, seed, secret, pre)

CallExpand(th) ==
    \E via \in Vias, prk \in Prks, info \in Inputs, pre \in PriorBufs :
        Call(th, "expand", via, prk, info, pre)

\* one caller, the full input sets
Next ==
    \/ CallExtract(1)
    \/ CallExpand(1)
    \/ ThreadStep(1)

Spec == Init /\ [][Next]_vars

\* two callers running concurrently, each on its own buffers
Seeds2 == {<<1>>}

Secrets2 == {<<>>, <<2>>}

Prks2 == {<<1>>}

Infos2 == {<<>>, <<2>>}

PriorBufs2 == {<<>>, Fill(64, 9), Fill(70, 0), Fill(70, 9)}

CallExtract2(th) ==
    \E via \in Vias, seed \in Seeds2, secret \in Secrets2, pre \in PriorBufs2 :
        Call(th, "extract", via, seed, secret, pre)

CallExpand2(th) ==
    \E via \in Vias, prk \in Prks2, info \in Infos2, pre \in PriorBufs2 :
        Call(th, "expand", via, prk, info, pre)

NextConc ==
    \/ \E th \in Threads : CallExtract2(th)
    \/ \E th \in Threads : CallExpand2(th)
    \/ \E th \in Threads : ThreadStep(th)

SpecConc == Init /\ [][NextConc]_vars

\* one caller, with output buffers at and just beyond 255 digest blocks
LimitLen == U8_MAX * SHA512_OUTPUT_BYTES_LENGTH

LongBufs == {Zeros(LimitLen), Zeros(LimitLen + 1)}

CallExpandLong(th) ==
    \E via \in Vias, pre \in LongBufs :
        Call(th, "expand", via, <<1>>, <<2>>, pre)

NextLimit ==
    \/ CallExtract(1)
    \/ CallExpand(1)
    \/ CallExpandLong(1)
    \/ ThreadRun(1)

SpecLimit == Init /\ [][NextLimit]_vars

\* ------------------------------------------------------------- properties

Returned(th, op) == call[th].op = op /\ fr[th].pc = "done"

Running(th) == ~Ended(fr[th].pc)

\* the outcome of a call: how it ended and what it left in out
Outcome(c) == <<c.pc, c.out>>

\* RFC 5869 section 2.3: T(0) is empty and
\* T(i) = HMAC(key = prk, message = T(i-1) || info || i).  A keystream state
\* holds the next block number i, T(i-1) as prev and T(1) || ... || T(i-1)
\* as acc; KeyStream advances it by up to 2^k blocks, stopping after block n.
RECURSIVE KeyStream(_, _, _, _, _)
KeyStream(prk, info, n, s, k) ==
    IF s.i > n THEN s
    ELSE IF k = 0
    THEN LET ti == Hmac(prk, s.prev \o info \o <<s.i>>)
         IN  [i |-> s.i + 1, prev |-> ti, acc |-> s.acc \o ti]
    ELSE KeyStream(prk, info, n, KeyStream(prk, info, n, s, k - 1), k - 1)

\* the first L bytes of T(1) || ... || T(n), n = ceil(L / 64) <= 255 < 2^8
Okm(prk, info, L) ==
    LET n == (L + output_bytes - 1) \div output_bytes
    IN  Take(KeyStream(prk, info, n, [i |-> 1, prev |-> <<>>, acc |-> <<>>], 8).acc, L)

C2_ExpandIsKeyStream ==
    \A th \in Threads :
        Returned(th, "expand") =>
            mem[th].out = Okm(mem[th].a, mem[th].b, Len(call[th].pre))

\* expand has filled a 70-byte buffer: T(1), then the first 6 bytes of T(2)
C2_Witness ==
    /\ Returned(1, "expand")
    /\ Len(call[1].pre) = 70
    /\ mem[1].b = <<2>>
    /\ LET t1 == Hmac(mem[1].a, <<2, 1>>)
           t2 == Hmac(mem[1].a, t1 \o <<2, 2>>)
       IN  /\ Take(mem[1].out, 64) = t1
           /\ SubSeq(mem[1].out, 65, 70) = Take(t2, 6)
           /\ Take(t2, 6) # Take(t1, 6)

\* C3: extract always returns, and when it has returned out is exactly 64
\* bytes long, whatever the length of out before the call.
C3_ExtractLength ==
    \A th \in Threads :
        call[th].op = "extract" =>
            /\ fr[th].pc # "panic"
            /\ fr[th].pc = "done" => Len(mem[th].out) = SHA512_OUTPUT_BYTES_LENGTH

\* extract has returned on a buffer that was longer than a digest
C3_Witness ==
    /\ Returned(1, "extract")
    /\ Len(call[1].pre) > SHA512_OUTPUT_BYTES_LENGTH
    /\ Len(mem[1].out) = SHA512_OUTPUT_BYTES_LENGTH

\* C4: expand never changes the length of out, at any point of the call.
C4_ExpandKeepsLength ==
    \A th \in Threads :
        call[th].op = "expand" => Len(mem[th].out) = Len(call[th].pre)

\* expand has returned on a buffer that is no multiple of 64 bytes long,
\* with new contents
C4_Witness ==
    /\ Returned(1, "expand")
    /\ Len(call[1].pre) = 70
    /\ mem[1].out # call[1].pre

\* C5: the result of expand into k bytes is the first k bytes of the result
\* of expand, with the same prk and info, into k + 64 bytes.
C5_TruncationConsistent ==
    \A th \in Threads :
        Returned(th, "expand") =>
            LET k    == Len(call[th].pre)
                more == RunAlone("expand", "fn", mem[th].a, mem[th].b,
                                 Zeros(k + SHA512_OUTPUT_BYTES_LENGTH))
            IN  /\ more.pc = "done"
                /\ mem[th].out = Take(more.out, k)

\* expand has returned on a buffer that ends inside the second block
C5_Witness ==
    /\ Returned(1, "expand")
    /\ Len(call[1].pre) = 70
    /\ mem[1].a = <<1>>
    /\ mem[1].out # Zeros(70)

C7_Deterministic ==
    \A th \in Threads : \A other \in Threads :
        (/\ fr[th].pc = "done" /\ fr[other].pc = "done"
         /\ call[th].op = call[other].op
         /\ mem[th].a = mem[other].a /\ mem[th].b = mem[other].b
         /\ call[th].op = "expand" => Len(call[th].pre) = Len(call[other].pre))
        => mem[th].out = mem[other].out

\* two callers have run expand on the same inputs, one through the free
\* function and one through an Hkdf value, over different prior contents
C7_Witness ==
    /\ Returned(1, "expand") /\ Returned(2, "expand")
    /\ mem[1].a = mem[2].a /\ mem[1].b = mem[2].b
    /\ call[1].via = "fn" /\ call[2].via = "method"
    /\ call[1].pre = Fill(70, 0) /\ call[2].pre = Fill(70, 9)

\* C8: a call through an Hkdf value ends as the free function does on the
\* same arguments and the same prior out, and enters the free function with
\* the arguments in the same order.
C8_WrapperForwards ==
    \A th \in Threads :
        call[th].via = "method" =>
            /\ Ended(fr[th].pc) =>
                   <<fr[th].pc, mem[th].out>> =
                       Outcome(RunAlone(call[th].op, "fn", mem[th].a, mem[th].b,
                                        call[th].pre))
            /\ fr[th].pc = call[th].op =>
                   /\ fr[th].x = mem[th].a
                   /\ fr[th].y = mem[th].b
                   /\ mem[th].out = call[th].pre

\* Hkdf.extract has returned on inputs whose order matters
C8_Witness ==
    /\ Returned(1, "extract")
    /\ call[1].via = "method"
    /\ mem[1].a = <<2>>
    /\ mem[1].b = <<1>>
    /\ Hmac(<<1>>, <<2>>) # Hmac(<<2>>, <<1>>)

\* C9: a step changes only the buffers of the caller that takes it, never
\* the inputs of a call in progress, and every call ends as it does when
\* it runs alone.
C9_NoInterference ==
    /\ [][\A th \in Threads :
            /\ fr'[th] = fr[th] => mem'[th] = mem[th]
            /\ Running(th) => mem'[th].a = mem[th].a /\ mem'[th].b = mem[th].b]_vars
    /\ [](\A th \in Threads :
            fr[th].pc \in {"done", "panic"} =>
                <<fr[th].pc, mem[th].out>> =
                    Outcome(RunAlone(call[th].op, call[th].via, mem[th].a,
                                     mem[th].b, call[th].pre)))

\* the two callers are both in the middle of a call, one in expand's loop
\* with a block written and one in extract
C9_Witness ==
    /\ fr[1].pc = "chunk" /\ fr[1].i = 1
    /\ fr[2].pc = "hkdf_extract"
    /\ mem[1].out # call[1].pre
    /\ mem[2].out # call[2].pre

\* C10: on entry to the HMAC computation out is 64 zero bytes when it was
\* not 64 bytes long and is untouched when it was, and the out extract
\* returns is the same for every prior out.
C10_ExtractDiscardsPrior ==
    \A th \in Threads :
        call[th].op = "extract" =>
            /\ fr[th].pc = "hkdf_extract" =>
                   mem[th].out =
                       IF Len(call[th].pre) # SHA512_OUTPUT_BYTES_LENGTH
                       THEN Zeros(SHA512_OUTPUT_BYTES_LENGTH)
                       ELSE call[th].pre
            /\ fr[th].pc = "done" =>
                   \A p \in PriorBufs :
                       Outcome(RunAlone("extract", "fn", mem[th].a, mem[th].b, p))
                           = <<"done", mem[th].out>>

\* extract has returned on a buffer of 70 non-zero bytes, none of which is left
C10_Witness ==
    /\ Returned(1, "extract")
    /\ call[1].pre = Fill(70, 9)
    /\ \A j \in 1..Len(mem[1].out) : mem[1].out[j] # 9

=============================================================================
